---- MODULE Spec2Model ----
(***************************************************************************)
(* Model of src/src/App.tsx: the App component's state (the useState       *)
(* slots), the async handler fetchGitHubData, and the two aggregations it  *)
(* computes (language histogram, daily push activity).                     *)
(*                                                                         *)
(* One state of the model is one committed state of the component between  *)
(* two turns of the event loop.  A synchronous run of the handler (from    *)
(* one await to the next) is one action; `await fetch(..)` followed by     *)
(* `await response.json()` is one resolution, since no slot is written     *)
(* between the two.                                                        *)
(*                                                                         *)
(* Data representation:                                                    *)
(*   - `profile` is an option: <<>> is null, <<p>> is the profile p.       *)
(*   - a JS object used as a map (langMap, commitsByDate) is the sequence  *)
(*     of its entries in insertion order, which is the order               *)
(*     Object.entries yields for non-integer keys.                         *)
(*   - a repository is [id, language]; language "" stands for every falsy  *)
(*     value of repo.language (null, undefined, '').                       *)
(*   - an event is [type, created_at, size]; created_at is the instant,    *)
(*     given by its local calendar date and hour [y, m, d, h].             *)
(*   - a date string "a/b/y" is the tuple <<a, b, y>> of its fields in     *)
(*     textual order.                                                      *)
(***************************************************************************)
EXTENDS Integers, Sequences, FiniteSets

VARIABLES
    username,       \* useState('')            line 47
    repos,          \* useState<Repository[]>  line 48
    profile,        \* useState<UserProfile|null> line 49
    commitData,     \* useState<CommitData[]>  line 50
    languageStats,  \* useState<LanguageStats[]> line 51
    loading,        \* useState(false)         line 52
    error,          \* useState('')            line 53
    cycles,         \* the calls of fetchGitHubData suspended at an await
    nextId,         \* number of the next call of fetchGitHubData
    locale,         \* the runtime's default locale (toLocaleDateString())
    src,            \* history: the call that last wrote each slot (0: cleared / initial)
    issued,         \* history: the requests issued, <<call, step>>
    succeeded,      \* history: the requests that resolved ok, <<call, step>>
    last,           \* history: what the last step was, and what it was given
    aggIn,          \* input of an aggregation run on its own
    aggOut,         \* its result
    aggPc           \* "idle" | "start" | "done"

vars == <<username, repos, profile, commitData, languageStats, loading, error,
          cycles, nextId, locale, src, issued, succeeded, last,
          aggIn, aggOut, aggPc>>

slots == <<profile, repos, languageStats, commitData, loading, error>>

-----------------------------------------------------------------------------
(* Bounds *)

MaxCycles == 2
MaxRepos == 4
MaxEvents == 3

-----------------------------------------------------------------------------
(* Input domains *)

Usernames == {"octocat", "torvalds"}

Locales == {"en-US", "en-GB"}

Steps == {"profile", "repos", "events"}

LanguageValues == {"", "Go", "go", "TypeScript"}

EventTypes == {"PushEvent", "WatchEvent"}

Timestamps ==
    { [y |-> 2024, m |-> 1, d |-> 2,  h |-> 9],
      [y |-> 2024, m |-> 1, d |-> 2,  h |-> 21],
      [y |-> 2024, m |-> 2, d |-> 1,  h |-> 9],
      [y |-> 2024, m |-> 1, d |-> 13, h |-> 9] }

PushSizes == {0, 2}

SeqsUpTo(S, n) == UNION { [1..k -> S] : k \in 0..n }

Repo(i, l) == [id |-> i, language |-> l]

RepoSeqs ==
    { [i \in 1..Len(ls) |-> Repo(i, ls[i])] : ls \in SeqsUpTo(LanguageValues, MaxRepos) }

Events == [type : EventTypes, created_at : Timestamps, size : PushSizes]

EventSeqs == SeqsUpTo(Events, MaxEvents)

-----------------------------------------------------------------------------
(* Aggregation: language histogram, lines 75-85 *)

IndexOf(acc, k) ==
    IF \E i \in 1..Len(acc) : acc[i].key = k
    THEN CHOOSE i \in 1..Len(acc) : acc[i].key = k
    ELSE 0

\* acc[k] = (acc[k] || 0) + n on an object whose entries are acc
AddTo(acc, k, n) ==
    LET i == IndexOf(acc, k)
    IN  IF i = 0
        THEN Append(acc, [key |-> k, val |-> n])
        ELSE [acc EXCEPT ![i].val = @ + n]

LangStepCountAll(acc, repo) == AddTo(acc, repo.language, 1)

\* the reducer of lines 75-80
LangStep(acc, repo) ==
    IF repo.language # "" THEN AddTo(acc, repo.language, 1) ELSE acc

RECURSIVE LangReduce(_, _)
LangReduce(acc, rs) ==
    IF rs = <<>> THEN acc ELSE LangReduce(LangStep(acc, Head(rs)), Tail(rs))

langMap(reposData) == LangReduce(<<>>, reposData)

\* Array.prototype.sort is stable: e goes after every element it does not
\* strictly precede.
InsertByCount(s, e) ==
    LET later == { i \in 1..Len(s) : e.count - s[i].count > 0 }
        p == IF later = {} THEN Len(s) + 1
             ELSE CHOOSE i \in later : \A j \in later : i <= j
    IN  SubSeq(s, 1, p - 1) \o <<e>> \o SubSeq(s, p, Len(s))

RECURSIVE SortByCountDesc(_)
SortByCountDesc(s) ==
    IF s = <<>> THEN <<>>
    ELSE InsertByCount(SortByCountDesc(SubSeq(s, 1, Len(s) - 1)), s[Len(s)])

\* lines 82-84
langStats(reposData) ==
    LET m == langMap(reposData)
    IN  SortByCountDesc([i \in 1..Len(m) |-> [name |-> m[i].key, count |-> m[i].val]])

-----------------------------------------------------------------------------
(* Aggregation: daily push activity, lines 92-102 *)

\* new Date(created_at).toLocaleDateString(): the local calendar date of the
\* instant, written the way the runtime's default locale writes it:
\* en-US "M/D/YYYY", en-GB "DD/MM/YYYY".
toLocaleDateString(ts, loc) ==
    IF loc = "en-US" THEN <<ts.m, ts.d, ts.y>> ELSE <<ts.d, ts.m, ts.y>>

\* new Date(str).getTime() for str = "a/b/y": the engines read a as the month
\* and b as the day, whatever locale wrote the string; a month above 12 is an
\* Invalid Date, whose time is NaN (valid = FALSE).  t grows with the instant.
DateGetTime(str) ==
    [valid |-> str[1] <= 12, t |-> (str[3] * 12 + str[1]) * 31 + str[2]]

\* the comparator of line 102; a NaN result counts as +0 (SortCompare)
CompareDates(a, b) ==
    LET ta == DateGetTime(a.date)
        tb == DateGetTime(b.date)
    IN  IF ta.valid /\ tb.valid THEN ta.t - tb.t ELSE 0

IsPushAny(event) == TRUE

\* the filter of line 93
IsPush(event) == event.type = "PushEvent"

\* the reducer of lines 94-98
CommitStep(acc, event, loc) ==
    AddTo(acc, toLocaleDateString(event.created_at, loc), event.size)

RECURSIVE CommitReduce(_, _, _)
CommitReduce(acc, es, loc) ==
    IF es = <<>> THEN acc
    ELSE CommitReduce(CommitStep(acc, Head(es), loc), Tail(es), loc)

commitsByDate(eventsData, loc) ==
    CommitReduce(<<>>, SelectSeq(eventsData, IsPush), loc)

InsertByDate(s, e) ==
    LET later == { i \in 1..Len(s) : CompareDates(e, s[i]) < 0 }
        p == IF later = {} THEN Len(s) + 1
             ELSE CHOOSE i \in later : \A j \in later : i <= j
    IN  SubSeq(s, 1, p - 1) \o <<e>> \o SubSeq(s, p, Len(s))

RECURSIVE StableSortByDate(_)
StableSortByDate(s) ==
    IF s = <<>> THEN <<>>
    ELSE InsertByDate(StableSortByDate(SubSeq(s, 1, Len(s) - 1)), s[Len(s)])

Reorderings(s) ==
    { [i \in 1..Len(s) |-> s[p[i]]] :
        p \in { q \in [1..Len(s) -> 1..Len(s)] :
                    \A i, j \in 1..Len(s) : q[i] = q[j] => i = j } }

\* The comparator is consistent unless an Invalid Date (equal to everything)
\* sits among entries that are not all equal to each other.
ConsistentComparator(s) ==
    \A i, j, k \in 1..Len(s) :
        (CompareDates(s[i], s[j]) = 0 /\ CompareDates(s[j], s[k]) = 0)
            => CompareDates(s[i], s[k]) = 0

\* Array.prototype.sort: the stable order under a consistent comparator, an
\* implementation-defined order of the same elements otherwise.
SortByDate(s) ==
    IF ConsistentComparator(s) THEN {StableSortByDate(s)} ELSE Reorderings(s)

\* lines 100-102: every value processedCommitData can take
processedCommitData(eventsData, loc) ==
    LET m == commitsByDate(eventsData, loc)
    IN  SortByDate([i \in 1..Len(m) |-> [date |-> m[i].key, count |-> m[i].val]])

-----------------------------------------------------------------------------
(* The aggregations run on their own, on every input within the bounds *)

SlotNames == {"profile", "repos", "languageStats", "commitData"}

NoLast ==
    [kind |-> "none", id |-> 0, alone |-> FALSE, step |-> "",
     profileData |-> <<>>, reposData |-> <<>>, eventsData |-> <<>>]

\* the state of the component after its first render, lines 47-53
ControllerIdle ==
    /\ username = "" /\ repos = <<>> /\ profile = <<>> /\ commitData = <<>>
    /\ languageStats = <<>> /\ loading = FALSE /\ error = ""
    /\ cycles = {} /\ nextId = 1 /\ src = [s \in SlotNames |-> 0]
    /\ issued = {} /\ succeeded = {}
    /\ last = NoLast

controllerVars == <<username, repos, profile, commitData, languageStats, loading,
                    error, cycles, nextId, src, issued, succeeded, last>>

InitLang ==
    /\ ControllerIdle
    /\ locale = "en-US"
    /\ aggIn \in RepoSeqs
    /\ aggOut = <<>>
    /\ aggPc = "start"

ComputeLangStats ==
    /\ aggPc = "start"
    /\ aggOut' = langStats(aggIn)
    /\ aggPc' = "done"
    /\ UNCHANGED <<controllerVars, locale, aggIn>>

SpecLang == InitLang /\ [][ComputeLangStats]_vars

InitActivity ==
    /\ ControllerIdle
    /\ locale \in Locales
    /\ aggIn \in EventSeqs
    /\ aggOut = <<>>
    /\ aggPc = "start"

ComputeCommitData ==
    /\ aggPc = "start"
    /\ aggOut' \in processedCommitData(aggIn, locale)
    /\ aggPc' = "done"
    /\ UNCHANGED <<controllerVars, locale, aggIn>>

SpecActivity == InitActivity /\ [][ComputeCommitData]_vars

-----------------------------------------------------------------------------
(* The component: the input, the two triggers, fetchGitHubData *)

\* what the upstream API may answer
ProfileResponses(u) == { [login |-> u] }

RepoSeqOf(ls) == [i \in 1..Len(ls) |-> Repo(i, ls[i])]

ReposResponses ==
    { <<>>, RepoSeqOf(<<"", "Go", "TypeScript", "Go">>) }

Push(ts, n) == [type |-> "PushEvent", created_at |-> ts, size |-> n]

EventsResponses ==
    { << Push([y |-> 2024, m |-> 1, d |-> 2, h |-> 9], 2),
         Push([y |-> 2024, m |-> 1, d |-> 2, h |-> 21], 5) >>,
      << Push([y |-> 2024, m |-> 2, d |-> 1, h |-> 9], 2),
         [type |-> "WatchEvent", created_at |-> [y |-> 2024, m |-> 1, d |-> 13, h |-> 9], size |-> 0],
         Push([y |-> 2024, m |-> 1, d |-> 2, h |-> 9], 0) >> }

\* a fetch fails with a response that is not ok (lines 64, 70, 89) or by
\* rejecting, which throws an Error whose message the runtime words
FailureKinds == {"notOk", "rejected"}

\* the message line 106 sets
ErrorMessage(step, kind) ==
    IF kind = "rejected" THEN "Failed to fetch"
    ELSE IF step = "profile" THEN "User not found or API limit exceeded"
    ELSE IF step = "repos" THEN "Failed to fetch repositories"
    ELSE "Failed to fetch commit data"

aggUnused == UNCHANGED <<aggIn, aggOut, aggPc>>

Init ==
    /\ ControllerIdle
    /\ locale \in Locales
    /\ aggIn = <<>>
    /\ aggOut = <<>>
    /\ aggPc = "idle"

\* onChange, line 136
SetUsername(u) ==
    /\ u # username
    /\ username' = u
    /\ last' = NoLast
    /\ UNCHANGED <<slots, cycles, nextId, locale, src, issued, succeeded>>
    /\ aggUnused

ReturnEarlyAfterReset ==
    /\ loading' = TRUE
    /\ error' = ""
    /\ last' = [NoLast EXCEPT !.kind = "emptyQuery"]
    /\ UNCHANGED <<username, profile, repos, languageStats, commitData,
                   cycles, nextId, locale, src, issued, succeeded>>
    /\ aggUnused

\* line 56: if (!username) return
ReturnEarly ==
    /\ last' = [NoLast EXCEPT !.kind = "emptyQuery"]
    /\ UNCHANGED <<username, slots, cycles, nextId, locale, src, issued, succeeded>>
    /\ aggUnused

NewCycle ==
    [id |-> nextId, user |-> username, pc |-> "profile", alone |-> cycles = {},
     profileData |-> <<>>, reposData |-> <<>>]

StartCycleAllRequests ==
    /\ nextId <= MaxCycles
    /\ loading' = TRUE
    /\ error' = ""
    /\ cycles' = { [c EXCEPT !.alone = FALSE] : c \in cycles } \cup {NewCycle}
    /\ nextId' = nextId + 1
    /\ issued' = issued \cup { <<nextId, s>> : s \in Steps }
    /\ last' = [NoLast EXCEPT !.kind = "start", !.id = nextId]
    /\ UNCHANGED <<username, profile, repos, languageStats, commitData,
                   locale, src, succeeded>>
    /\ aggUnused

\* lines 58-63: the flags are set and the profile request goes out; the call
\* suspends at the first await
StartCycle ==
    /\ nextId <= MaxCycles
    /\ loading' = TRUE
    /\ error' = ""
    /\ cycles' = { [c EXCEPT !.alone = FALSE] : c \in cycles } \cup {NewCycle}
    /\ nextId' = nextId + 1
    /\ issued' = issued \cup { <<nextId, "profile">> }
    /\ last' = [NoLast EXCEPT !.kind = "start", !.id = nextId]
    /\ UNCHANGED <<username, profile, repos, languageStats, commitData,
                   locale, src, succeeded>>
    /\ aggUnused

\* lines 55-63, up to the first await
fetchGitHubData == IF username = "" THEN ReturnEarly ELSE StartCycle

\* the button, line 139: disabled while loading
ClickSearch == ~loading /\ fetchGitHubData

\* the Enter key in the input, line 137: not disabled
PressEnter == fetchGitHubData

CatchKeepProfile(c, step, kind) ==
    /\ error' = ErrorMessage(step, kind)
    /\ repos' = <<>>
    /\ commitData' = <<>>
    /\ languageStats' = <<>>
    /\ loading' = FALSE
    /\ cycles' = cycles \ {c}
    /\ src' = [src EXCEPT !.repos = 0, !.languageStats = 0, !.commitData = 0]
    /\ last' = [NoLast EXCEPT !.kind = "failed", !.id = c.id, !.alone = c.alone,
                              !.step = step, !.profileData = c.profileData,
                              !.reposData = c.reposData]
    /\ UNCHANGED <<username, profile, nextId, locale, issued, succeeded>>
    /\ aggUnused

\* lines 105-113: the catch block, then finally
Catch(c, step, kind) ==
    /\ error' = ErrorMessage(step, kind)
    /\ profile' = <<>>
    /\ repos' = <<>>
    /\ commitData' = <<>>
    /\ languageStats' = <<>>
    /\ loading' = FALSE
    /\ cycles' = cycles \ {c}
    /\ src' = [s \in SlotNames |-> 0]
    /\ last' = [NoLast EXCEPT !.kind = "failed", !.id = c.id, !.alone = c.alone,
                              !.step = step, !.profileData = c.profileData,
                              !.reposData = c.reposData]
    /\ UNCHANGED <<username, nextId, locale, issued, succeeded>>
    /\ aggUnused

\* lines 63-69: the profile arrives, is published, the repository request
\* goes out
ProfileOk(c) ==
    /\ c.pc = "profile"
    /\ \E p \in ProfileResponses(c.user) :
           /\ profile' = <<p>>
           /\ cycles' = (cycles \ {c}) \cup {[c EXCEPT !.pc = "repos", !.profileData = <<p>>]}
    /\ src' = [src EXCEPT !.profile = c.id]
    /\ issued' = issued \cup { <<c.id, "repos">> }
    /\ succeeded' = succeeded \cup { <<c.id, "profile">> }
    /\ last' = NoLast
    /\ UNCHANGED <<username, repos, languageStats, commitData, loading, error,
                   nextId, locale>>
    /\ aggUnused

\* lines 63-64 failing
ProfileFail(c) ==
    /\ c.pc = "profile"
    /\ \E kind \in FailureKinds : Catch(c, "profile", kind)

ReposOkNoStats(c) ==
    /\ c.pc = "repos"
    /\ \E r \in ReposResponses :
           /\ repos' = r
           /\ cycles' = (cycles \ {c}) \cup {[c EXCEPT !.pc = "events", !.reposData = r]}
    /\ src' = [src EXCEPT !.repos = c.id]
    /\ issued' = issued \cup { <<c.id, "events">> }
    /\ succeeded' = succeeded \cup { <<c.id, "repos">> }
    /\ last' = NoLast
    /\ UNCHANGED <<username, profile, languageStats, commitData, loading, error,
                   nextId, locale>>
    /\ aggUnused

\* lines 69-88: the repositories arrive, they and their histogram are
\* published, the event request goes out
ReposOk(c) ==
    /\ c.pc = "repos"
    /\ \E r \in ReposResponses :
           /\ repos' = r
           /\ languageStats' = langStats(r)
           /\ cycles' = (cycles \ {c}) \cup {[c EXCEPT !.pc = "events", !.reposData = r]}
    /\ src' = [src EXCEPT !.repos = c.id, !.languageStats = c.id]
    /\ issued' = issued \cup { <<c.id, "events">> }
    /\ succeeded' = succeeded \cup { <<c.id, "repos">> }
    /\ last' = NoLast
    /\ UNCHANGED <<username, profile, commitData, loading, error, nextId, locale>>
    /\ aggUnused

\* lines 69-70 failing
ReposFail(c) ==
    /\ c.pc = "repos"
    /\ \E kind \in FailureKinds : Catch(c, "repos", kind)

EventsOkStillLoading(c) ==
    /\ c.pc = "events"
    /\ \E e \in EventsResponses :
           /\ commitData' \in processedCommitData(e, locale)
           /\ last' = [NoLast EXCEPT !.kind = "loaded", !.id = c.id, !.alone = c.alone,
                                     !.step = "events", !.profileData = c.profileData,
                                     !.reposData = c.reposData, !.eventsData = e]
    /\ cycles' = cycles \ {c}
    /\ src' = [src EXCEPT !.commitData = c.id]
    /\ succeeded' = succeeded \cup { <<c.id, "events">> }
    /\ UNCHANGED <<username, profile, repos, languageStats, loading, error,
                   nextId, locale, issued>>
    /\ aggUnused

\* lines 88-104 and 111-113: the events arrive, the activity series is
\* published, finally ends the call
EventsOk(c) ==
    /\ c.pc = "events"
    /\ \E e \in EventsResponses :
           /\ commitData' \in processedCommitData(e, locale)
           /\ last' = [NoLast EXCEPT !.kind = "loaded", !.id = c.id, !.alone = c.alone,
                                     !.step = "events", !.profileData = c.profileData,
                                     !.reposData = c.reposData, !.eventsData = e]
    /\ loading' = FALSE
    /\ cycles' = cycles \ {c}
    /\ src' = [src EXCEPT !.commitData = c.id]
    /\ succeeded' = succeeded \cup { <<c.id, "events">> }
    /\ UNCHANGED <<username, profile, repos, languageStats, error,
                   nextId, locale, issued>>
    /\ aggUnused

\* lines 88-89 failing
EventsFail(c) ==
    /\ c.pc = "events"
    /\ \E kind \in FailureKinds : Catch(c, "events", kind)

Next ==
    \/ \E u \in Usernames \cup {""} : SetUsername(u)
    \/ ClickSearch
    \/ PressEnter
    \/ \E c \in cycles : ProfileOk(c)
    \/ \E c \in cycles : ProfileFail(c)
    \/ \E c \in cycles : ReposOk(c)
    \/ \E c \in cycles : ReposFail(c)
    \/ \E c \in cycles : EventsOk(c)
    \/ \E c \in cycles : EventsFail(c)

Spec == Init /\ [][Next]_vars

-----------------------------------------------------------------------------
(* Claims about the aggregations *)

Indices(s) == 1..Len(s)

RECURSIVE SumCounts(_)
SumCounts(s) == IF s = <<>> THEN 0 ELSE Head(s).count + SumCounts(Tail(s))

RECURSIVE SumSizes(_)
SumSizes(es) == IF es = <<>> THEN 0 ELSE Head(es).size + SumSizes(Tail(es))

ReposWithLanguage(R, l) == { k \in Indices(R) : R[k].language = l }

\* C6: the histogram of R has exactly one entry per distinct non-empty
\* language of R, each entry counts the repositories of R with exactly that
\* language, the counts sum to the number of repositories with a non-empty
\* language, and the entries are in non-increasing order of count; an empty R
\* gives an empty histogram.
C6_Histogram ==
    aggPc = "done" =>
        /\ \A i, j \in Indices(aggOut) : aggOut[i].name = aggOut[j].name => i = j
        /\ { aggOut[i].name : i \in Indices(aggOut) }
               = { aggIn[k].language : k \in Indices(aggIn) } \ {""}
        /\ \A i \in Indices(aggOut) :
               aggOut[i].count = Cardinality(ReposWithLanguage(aggIn, aggOut[i].name))
        /\ SumCounts(aggOut)
               = Cardinality({ k \in Indices(aggIn) : aggIn[k].language # "" })
        /\ \A i, j \in Indices(aggOut) : i < j => aggOut[i].count >= aggOut[j].count
        /\ aggIn = <<>> => aggOut = <<>>

\* a repository without language, and a language that occurs twice after a
\* language differing from it only in case: the sort moves it to the front
C6_Witness ==
    /\ aggPc = "done"
    /\ aggIn # <<>> /\ aggIn[1].language = "go"
    /\ \E k \in Indices(aggIn) : aggIn[k].language = ""
    /\ aggOut = <<[name |-> "Go", count |-> 2], [name |-> "go", count |-> 1]>>

LocalDate(ts) == [y |-> ts.y, m |-> ts.m, d |-> ts.d]

PushesOn(E, D) ==
    SelectSeq(E, LAMBDA e : e.type = "PushEvent" /\ LocalDate(e.created_at) = D)

LocalDates == { LocalDate(ts) : ts \in Timestamps }

\* C7: the activity series of E has exactly one entry per distinct local
\* calendar date on which E has a push event; its value is the sum of the
\* sizes of the push events of that date (0 included); other events
\* contribute nothing, and a date without push event has no entry.
C7_ActivitySeries ==
    aggPc = "done" =>
        /\ \A i, j \in Indices(aggOut) : aggOut[i].date = aggOut[j].date => i = j
        /\ \A D \in LocalDates :
               LET entries == { i \in Indices(aggOut) :
                                    aggOut[i].date = toLocaleDateString(D, locale) }
               IN  IF PushesOn(aggIn, D) = <<>>
                   THEN entries = {}
                   ELSE /\ Cardinality(entries) = 1
                        /\ \A i \in entries : aggOut[i].count = SumSizes(PushesOn(aggIn, D))
        /\ \A i \in Indices(aggOut) :
               \E D \in LocalDates : /\ aggOut[i].date = toLocaleDateString(D, locale)
                                     /\ PushesOn(aggIn, D) # <<>>

\* two pushes at different hours of one date, summed, a push of size 0 on
\* another date, kept with value 0
C7_Witness ==
    /\ aggPc = "done"
    /\ Len(aggOut) = 2
    /\ \E i \in Indices(aggOut) : aggOut[i].count = 4
    /\ \E i \in Indices(aggOut) : aggOut[i].count = 0
    /\ \E i, j \in Indices(aggIn) :
           /\ aggIn[i].created_at # aggIn[j].created_at
           /\ LocalDate(aggIn[i].created_at) = LocalDate(aggIn[j].created_at)
           /\ aggIn[i].type = "PushEvent" /\ aggIn[j].type = "PushEvent"

\* the calendar date a date string of the series was written from
ActualDate(str) == CHOOSE D \in LocalDates : toLocaleDateString(D, locale) = str

Chronological(D) == (D.y * 12 + D.m) * 31 + D.d

\* C8: the activity series is in non-decreasing order of the actual date of
\* its entries, for every E and every order of its events.
C8_Chronological ==
    aggPc = "done" =>
        \A i, j \in Indices(aggOut) :
            i < j => Chronological(ActualDate(aggOut[i].date))
                        <= Chronological(ActualDate(aggOut[j].date))

\* what does hold: the order is chronological where the runtime writes dates
\* month first
C8_ChronologicalMonthFirst ==
    (aggPc = "done" /\ locale = "en-US") =>
        \A i, j \in Indices(aggOut) :
            i < j => Chronological(ActualDate(aggOut[i].date))
                        <= Chronological(ActualDate(aggOut[j].date))

-----------------------------------------------------------------------------
(* Claims about the component *)

InFlight == cycles # {}

Started == 1..(nextId - 1)

\* C1 as stated: in every state the four published slots come from the same
\* call of fetchGitHubData, or are all empty.
C1_SameCycle ==
    /\ src.profile = src.repos
    /\ src.repos = src.languageStats
    /\ src.languageStats = src.commitData

\* C1 as the code has it: a slot is published as soon as its own fetch has
\* resolved, not when all three have.  Every slot a call has written comes
\* from a fetch of that call that succeeded, a cleared slot is empty, and
\* repos and languageStats are always written together: they come from the
\* same call and languageStats is the histogram of repos.
C1_PublishedPerFetch ==
    /\ src.profile # 0 => <<src.profile, "profile">> \in succeeded
    /\ src.repos # 0 => <<src.repos, "repos">> \in succeeded
    /\ src.commitData # 0 => <<src.commitData, "events">> \in succeeded
    /\ src.profile = 0 <=> profile = <<>>
    /\ src.repos = 0 => repos = <<>>
    /\ src.commitData = 0 => commitData = <<>>
    /\ src.repos = src.languageStats
    /\ languageStats = langStats(repos)

\* a second query is loading: its profile is published next to the
\* repositories, histogram and activity of the query before it
C1_Witness ==
    /\ loading
    /\ \E c \in cycles : c.pc = "repos" /\ c.alone /\ src.profile = c.id
    /\ src.repos # 0 /\ src.repos < src.profile
    /\ src.commitData = src.repos
    /\ repos # <<>>

\* C2: a call that runs alone and fails at any of its three fetches leaves
\* profile null, repos, languageStats and commitData empty, error a
\* non-empty message and loading false.
C2_FailureClearsAll ==
    (last.kind = "failed" /\ last.alone) =>
        /\ profile = <<>>
        /\ repos = <<>>
        /\ languageStats = <<>>
        /\ commitData = <<>>
        /\ error # ""
        /\ loading = FALSE

\* the event fetch failed after the call had published its profile and its
\* repositories
C2_Witness ==
    /\ last.kind = "failed" /\ last.alone /\ last.step = "events"
    /\ last.profileData # <<>> /\ last.reposData # <<>>
    /\ <<last.id, "repos">> \in succeeded
    /\ profile = <<>> /\ repos = <<>>

\* C3: triggered with an empty identifier, fetchGitHubData issues no request
\* and leaves every slot as it was.
C3_EmptyQueryNoOp ==
    [][ last'.kind = "emptyQuery" =>
            /\ slots' = slots
            /\ issued' = issued
            /\ cycles' = cycles
            /\ nextId' = nextId ]_vars

\* the empty identifier was submitted while a query was loading and its
\* profile was on display
C3_Witness ==
    /\ last.kind = "emptyQuery"
    /\ username = ""
    /\ loading
    /\ profile # <<>>
    /\ InFlight

\* C4 as stated: the three requests of a call are issued together, whatever
\* the outcome of the profile request.
C4_AllRequestsIssued ==
    \A id \in Started : \A s \in Steps : <<id, s>> \in issued

\* C4 as the code has it: the requests of a call go out one after the other.
\* The repository request is issued only once the profile request has
\* succeeded, the event request only once the repository request has; a call
\* waits for at most one request at a time.
C4_RequestsInSequence ==
    /\ \A id \in Started :
           /\ <<id, "profile">> \in issued
           /\ <<id, "repos">> \in issued <=> <<id, "profile">> \in succeeded
           /\ <<id, "events">> \in issued <=> <<id, "repos">> \in succeeded
    /\ \A c \in cycles :
           /\ <<c.id, c.pc>> \in issued
           /\ <<c.id, c.pc>> \notin succeeded
           /\ \A s \in Steps : (<<c.id, s>> \in issued /\ s # c.pc) => <<c.id, s>> \in succeeded

\* the profile request of a call failed: the call is over and its repository
\* and event requests were never issued
C4_Witness ==
    /\ last.kind = "failed" /\ last.step = "profile"
    /\ <<last.id, "profile">> \in issued
    /\ <<last.id, "repos">> \notin issued
    /\ <<last.id, "events">> \notin issued
    /\ \A c \in cycles : c.id # last.id

\* C5: a call that runs alone and whose three fetches succeed leaves profile
\* the profile response, repos the repository response in the order
\* delivered, languageStats its histogram, commitData the activity series of
\* the event response, error empty and loading false.
C5_SuccessPublishesAll ==
    (last.kind = "loaded" /\ last.alone) =>
        /\ profile = last.profileData
        /\ repos = last.reposData
        /\ languageStats = langStats(last.reposData)
        /\ commitData \in processedCommitData(last.eventsData, locale)
        /\ error = ""
        /\ loading = FALSE

\* a second query, run alone after a first one, has replaced its results
C5_Witness ==
    /\ last.kind = "loaded" /\ last.alone /\ last.id > 1
    /\ profile # <<>> /\ profile[1].login = username
    /\ Len(repos) = 4 /\ Len(languageStats) = 2 /\ languageStats[1].count = 2
    /\ Len(commitData) = 1 /\ commitData[1].count = 7
    /\ ~InFlight

\* C9: loading is true exactly in the states in which a call is in flight.
C9_LoadingIffInFlight == loading <=> InFlight

\* C10: when no call is in flight, a non-empty error comes with a null
\* profile and empty repos, languageStats and commitData.
C10_ErrorExcludesResults ==
    (~InFlight /\ error # "") =>
        /\ profile = <<>>
        /\ repos = <<>>
        /\ languageStats = <<>>
        /\ commitData = <<>>

====
